---------------------------- MODULE Spec2Model ----------------------------
(***************************************************************************)
(* A model of the package validator of pkg/commands/compute/validate.go.   *)
(*                                                                         *)
(* validate(path, fileValidator) is modelled as a sequential process, one  *)
(* action per statement group of the function.  Each invocation has its    *)
(* own local state (a record of call[c]); the archive it is given and the  *)
(* hook it is given are its inputs.  The deferred file.Close / tar.Close   *)
(* run inside the action that returns, as they do in Go.                   *)
(*                                                                         *)
(* What the imported packages do is modelled by what they do:              *)
(*   - os.Open fails when the path does not name a readable file;          *)
(*   - archiver.TarGz.Open wraps the file in a gzip reader (which reads    *)
(*     the gzip header and fails when it is not one) and then in a tar     *)
(*     reader (tar.NewReader reads nothing, so it cannot fail);            *)
(*   - tar.Read returns the next entry, io.EOF, or another error;          *)
(*   - archiver.File embeds the os.FileInfo of the tar header, whose       *)
(*     Name() is "the base name of the file": the last element of the      *)
(*     path the entry is stored under;                                     *)
(*   - f.Close() returns an error or nil (io.Closer).                      *)
(***************************************************************************)
EXTENDS Naturals, Sequences, FiniteSets

(***************************************************************************)
(* Bounds of the model.                                                    *)
(***************************************************************************)
\* the longest archive (number of entries tar.Read can return)
MaxEntries == 3

\* the longest archive of two calls that run concurrently
MaxConcEntries == 2

(***************************************************************************)
(* Inputs.                                                                 *)
(***************************************************************************)
\* The keys of the map literal `files` (lines 97-100).
Required == {"fastly.toml", "main.wasm"}

\* Paths an entry can be stored under in the archive, as sequences of path
\* elements: <<"subdir", "main.wasm">> is the entry subdir/main.wasm.
Paths ==
    { <<"fastly.toml">>, <<"main.wasm">>, <<"subdir", "main.wasm">>,
      <<"README.md">> }

\* The first element of the path instead of the last.
NameFirst(p) == p[1]

\* f.Name() (line 112): archiver.File embeds the os.FileInfo of the tar
\* header, and FileInfo.Name() is the base name of the header's path.
Name(p) == p[Len(p)]

\* The sequences over S of length at most n.
RECURSIVE SeqsUpTo(_, _)
SeqsUpTo(S, n) ==
    IF n = 0 THEN { <<>> }
    ELSE LET shorter == SeqsUpTo(S, n - 1)
         IN  shorter \cup
             { Append(s, x) : s \in { t \in shorter : Len(t) = n - 1 }, x \in S }

\* What validate can be pointed at.
\*   exists   the path names a readable file (os.Open succeeds)
\*   gzip     the file starts with a gzip header (tar.Open succeeds)
\*   entries  the paths of the entries tar.Read returns, in stream order
\*   tail     what tar.Read returns after them: io.EOF, or another error
\*            (a truncated or corrupt archive; with no entries before it,
\*            a gzip stream that is not a tar container)
\*   closeErr the entry whose Close() returns an error (0: none).  One index
\*            is general: validate returns right after the first Close()
\*            that fails, on line 120 or on line 126.
Archives ==
    { [exists |-> FALSE, gzip |-> FALSE, entries |-> <<>>, tail |-> "eof",
       closeErr |-> 0],
      [exists |-> TRUE, gzip |-> FALSE, entries |-> <<>>, tail |-> "eof",
       closeErr |-> 0] }
    \cup
    UNION { { [exists |-> TRUE, gzip |-> TRUE, entries |-> es, tail |-> t,
               closeErr |-> ce] :
              t \in {"eof", "corrupt"}, ce \in 0..Len(es) } :
            es \in SeqsUpTo(Paths, MaxEntries) }

\* The fileValidator argument: nil (present = FALSE), or a hook that returns
\* an error on the entry number rejectAt and nil before it (0: it accepts
\* every entry).  validate calls the hook at most once after its first error.
Validators(a) ==
    { [present |-> FALSE, rejectAt |-> 0] } \cup
    { [present |-> TRUE, rejectAt |-> k] : k \in 0..Len(a.entries) }

NilValidator == [present |-> FALSE, rejectAt |-> 0]
AcceptAll == [present |-> TRUE, rejectAt |-> 0]

(***************************************************************************)
(* State.                                                                  *)
(***************************************************************************)
VARIABLES
    archive,        \* archive[c]: the archive call c is given (its path)
    fileValidator,  \* fileValidator[c]: the hook call c is given
    call,           \* call[c]: the local state of invocation c of validate
    cmd             \* the state of ValidateCommand.Exec, when it is the caller

vars == <<archive, fileValidator, call, cmd>>

\* The map `files` does not exist before line 97.
NoFiles == [k \in {} |-> FALSE]

NoError == [kind |-> "none", name |-> ""]
Nil == [kind |-> "nil", name |-> ""]
Err(kind) == [kind |-> kind, name |-> ""]

\* The local state of an invocation at its entry.
\*   pc       the statement the call is at
\*   files    the map of lines 97-100
\*   f        the number (in stream order) of the entry tar.Read returned last
\*   reads    the number of tar.Read calls made
\*   open     the entries returned by tar.Read on which Close() was not called
\*   defers   the deferred calls, in the order they were deferred
\*   fileOpen the *os.File is open;  tarOpen: the tar/gzip reader is open
\*   ops      the operations performed on the archive, in order: "open"
\*            (os.Open), "tarOpen", "read" (tar.Read returning entry n, or
\*            an error when ok is FALSE), "eof" (tar.Read returning io.EOF),
\*            "close" (Close() of entry n), "tarClose", "fileClose"
\*   hooked   the entries fileValidator was called on, in order
\*   err      the value validate returned ("none": it has not returned)
Entry ==
    [pc |-> "osOpen", files |-> NoFiles, f |-> 0, reads |-> 0, open |-> {},
     defers |-> <<>>, fileOpen |-> FALSE, tarOpen |-> FALSE, ops |-> <<>>,
     hooked |-> <<>>, err |-> NoError]

Op(op, n, ok) == [op |-> op, n |-> n, ok |-> ok]


(***************************************************************************)
(* Returning: the deferred calls run last-deferred first (lines 88, 95).   *)
(***************************************************************************)
Released(s, d) ==
    IF d = "tar.Close"
    THEN [s EXCEPT !.tarOpen = FALSE, !.ops = Append(@, Op("tarClose", 0, TRUE))]
    ELSE [s EXCEPT !.fileOpen = FALSE, !.ops = Append(@, Op("fileClose", 0, TRUE))]

RECURSIVE RunDefers(_)
RunDefers(s) ==
    IF s.defers = <<>> THEN s
    ELSE LET n == Len(s.defers)
         IN  RunDefers(Released([s EXCEPT !.defers = SubSeq(@, 1, n - 1)],
                                s.defers[n]))

\* A return without its deferred calls.
ReturnNoDefers(s, e) == [s EXCEPT !.pc = "done", !.err = e]

\* `return e`: the deferred calls run, then the caller has e.
Return(s, e) == RunDefers([s EXCEPT !.pc = "done", !.err = e])

(***************************************************************************)
(* The statements of validate, as functions of the call's local state s,   *)
(* the archive a at its path and the hook v it was given.                  *)
(***************************************************************************)
\* lines 84-88: os.Open, defer file.Close()
OsOpenStep(s, a) ==
    IF ~a.exists
    THEN Return([s EXCEPT !.ops = Append(@, Op("open", 0, FALSE))],
                Err("OpenError"))
    ELSE [s EXCEPT !.pc = "tarOpen", !.fileOpen = TRUE,
                   !.defers = Append(@, "file.Close"),
                   !.ops = Append(@, Op("open", 0, TRUE))]

\* A map literal with one key.
NewFilesTomlOnly == [k \in {"fastly.toml"} |-> FALSE]

\* lines 97-100: the map literal
NewFiles == [k \in Required |-> FALSE]

\* tar.Open's error is not looked at.
TarOpenStepUnchecked(s, a) ==
    [s EXCEPT !.pc = "newFiles", !.tarOpen = a.gzip,
              !.defers = Append(@, "tar.Close"),
              !.ops = Append(@, Op("tarOpen", 0, a.gzip))]

\* lines 90-95: tar.Open, defer tar.Close()
TarOpenStep(s, a) ==
    IF ~a.gzip
    THEN Return([s EXCEPT !.ops = Append(@, Op("tarOpen", 0, FALSE))],
                Err("UnarchiveError"))
    ELSE [s EXCEPT !.pc = "newFiles", !.tarOpen = TRUE,
                   !.defers = Append(@, "tar.Close"),
                   !.ops = Append(@, Op("tarOpen", 0, TRUE))]

\* lines 97-102: files := map literal, then the loop is entered
NewFilesStep(s) == [s EXCEPT !.pc = "read", !.files = NewFiles]

\* Every error of tar.Read ends the loop as io.EOF does.
ReadStepErrAsEOF(s, a) ==
    LET n == s.f + 1
    IN  IF n <= Len(a.entries)
        THEN [s EXCEPT !.pc = "track", !.f = n, !.reads = @ + 1,
                       !.open = @ \cup {n},
                       !.ops = Append(@, Op("read", n, TRUE))]
        ELSE [s EXCEPT !.pc = "check", !.reads = @ + 1,
                       !.ops = Append(@, Op("eof", n, TRUE))]

\* io.EOF does not leave the loop: tar.Read is called again.
ReadStepNoBreak(s, a) ==
    LET n == s.f + 1
    IN  IF n <= Len(a.entries)
        THEN [s EXCEPT !.pc = "track", !.f = n, !.reads = @ + 1,
                       !.open = @ \cup {n},
                       !.ops = Append(@, Op("read", n, TRUE))]
        ELSE IF a.tail = "eof"
        THEN [s EXCEPT !.reads = @ + 1,
                       !.ops = Append(@, Op("eof", n, TRUE))]
        ELSE Return([s EXCEPT !.reads = @ + 1,
                              !.ops = Append(@, Op("read", n, FALSE))],
                    Err("ReadError"))

\* lines 103-109: f, err := tar.Read(); io.EOF breaks, another error returns
ReadStep(s, a) ==
    LET n == s.f + 1
    IN  IF n <= Len(a.entries)
        THEN [s EXCEPT !.pc = "track", !.f = n, !.reads = @ + 1,
                       !.open = @ \cup {n},
                       !.ops = Append(@, Op("read", n, TRUE))]
        ELSE IF a.tail = "eof"
        THEN [s EXCEPT !.pc = "check", !.reads = @ + 1,
                       !.ops = Append(@, Op("eof", n, TRUE))]
        ELSE Return([s EXCEPT !.reads = @ + 1,
                              !.ops = Append(@, Op("read", n, FALSE))],
                    Err("ReadError"))

\* The flag of the name is flipped.
MarkToggle(fs, n) == [k \in DOMAIN fs |-> IF k = n THEN ~fs[k] ELSE fs[k]]

\* The map rebuilt from the current entry alone.
MarkOnly(fs, n) == [k \in DOMAIN fs |-> k = n]

\* lines 111-115: for k := range files { if k == f.Name() { files[k] = true } }
Mark(fs, n) == [k \in DOMAIN fs |-> IF k = n THEN TRUE ELSE fs[k]]

\* The flags are not updated before the hook is called.
TrackStepSkipped(s, a) == [s EXCEPT !.pc = "hook"]

TrackStep(s, a) ==
    [s EXCEPT !.pc = "hook", !.files = Mark(@, Name(a.entries[s.f]))]

\* An entry that is never closed.
CloseEntrySkipped(s, a) == s

\* f.Close() on the current entry (lines 119 and 124)
CloseEntry(s, a) ==
    [s EXCEPT !.open = @ \ {s.f},
              !.ops = Append(@, Op("close", s.f, a.closeErr # s.f))]

\* The hook's error closes the entry and the loop goes on.
HookStepNoAbort(s, a, v) ==
    IF ~v.present THEN [s EXCEPT !.pc = "close"]
    ELSE LET t == [s EXCEPT !.hooked = Append(@, s.f)]
         IN  IF v.rejectAt = s.f
             THEN [CloseEntry(t, a) EXCEPT !.pc = "read"]
             ELSE [t EXCEPT !.pc = "close"]

\* f.Close() of line 124 is reached only without a hook.
HookStepSkipClose(s, a, v) ==
    IF ~v.present THEN [s EXCEPT !.pc = "close"]
    ELSE LET t == [s EXCEPT !.hooked = Append(@, s.f)]
         IN  IF v.rejectAt = s.f
             THEN Return(CloseEntry(t, a), Err("ValidatorError"))
             ELSE [t EXCEPT !.pc = "read"]

\* The error of the f.Close() of line 119 is returned when there is one.
HookStepCloseErrWins(s, a, v) ==
    IF ~v.present THEN [s EXCEPT !.pc = "close"]
    ELSE LET t == [s EXCEPT !.hooked = Append(@, s.f)]
         IN  IF v.rejectAt = s.f
             THEN Return(CloseEntry(t, a),
                         IF a.closeErr = s.f THEN Err("CloseError")
                         ELSE Err("ValidatorError"))
             ELSE [t EXCEPT !.pc = "close"]

\* lines 117-122: the hook, when there is one; its error closes f and is
\* returned as it is (the result of that f.Close() is dropped)
HookStep(s, a, v) ==
    IF ~v.present THEN [s EXCEPT !.pc = "close"]
    ELSE LET t == [s EXCEPT !.hooked = Append(@, s.f)]
         IN  IF v.rejectAt = s.f
             THEN Return(CloseEntry(t, a), Err("ValidatorError"))
             ELSE [t EXCEPT !.pc = "close"]

\* The error of f.Close() is dropped.
CloseStepIgnoreErr(s, a) == [CloseEntry(s, a) EXCEPT !.pc = "read"]

\* line 132: the error that names the key k
MissingErr(k) == [kind |-> "MissingRequiredFileError", name |-> k]

\* The error of f.Close() is returned under the message of line 108.
CloseStepWrongKind(s, a) ==
    IF a.closeErr = s.f
    THEN Return(CloseEntry(s, a), Err("ReadError"))
    ELSE [CloseEntry(s, a) EXCEPT !.pc = "read"]

\* The flags are checked inside the loop, after each entry.
CloseStepCheckInLoop(s, a) ==
    IF a.closeErr = s.f
    THEN Return(CloseEntry(s, a), Err("CloseError"))
    ELSE IF \E k \in DOMAIN s.files : ~s.files[k]
    THEN Return(CloseEntry(s, a),
                MissingErr(CHOOSE k \in DOMAIN s.files : ~s.files[k]))
    ELSE [CloseEntry(s, a) EXCEPT !.pc = "read"]

\* lines 124-127: err = f.Close()
CloseStep(s, a) ==
    IF a.closeErr = s.f
    THEN Return(CloseEntry(s, a), Err("CloseError"))
    ELSE [CloseEntry(s, a) EXCEPT !.pc = "read"]

\* The first key of the range is reported whatever its flag, once one is false.
CheckResultsAnyKey(fs) ==
    IF \A k \in DOMAIN fs : fs[k] THEN {Nil}
    ELSE { MissingErr(k) : k \in DOMAIN fs }

\* The range is left after the first key it visits.
CheckResultsFirstKeyOnly(fs) ==
    IF DOMAIN fs = {} THEN {Nil}
    ELSE { IF fs[k] THEN Nil ELSE MissingErr(k) : k \in DOMAIN fs }

\* lines 130-136: for k, found := range files { if !found { return ... } }
\* The range visits the keys of a Go map in an order that is not fixed, and
\* the first key met whose flag is false is the one reported: every key with
\* a false flag can be.
CheckResults(fs) ==
    IF \A k \in DOMAIN fs : fs[k] THEN {Nil}
    ELSE { MissingErr(k) : k \in { j \in DOMAIN fs : ~fs[j] } }

(***************************************************************************)
(* Actions: call c takes its next step.                                    *)
(***************************************************************************)
Calls == DOMAIN call

OsOpen(c) ==
    /\ call[c].pc = "osOpen"
    /\ call' = [call EXCEPT ![c] = OsOpenStep(@, archive[c])]
    /\ UNCHANGED <<archive, fileValidator, cmd>>

TarOpen(c) ==
    /\ call[c].pc = "tarOpen"
    /\ call' = [call EXCEPT ![c] = TarOpenStep(@, archive[c])]
    /\ UNCHANGED <<archive, fileValidator, cmd>>

MakeFiles(c) ==
    /\ call[c].pc = "newFiles"
    /\ call' = [call EXCEPT ![c] = NewFilesStep(@)]
    /\ UNCHANGED <<archive, fileValidator, cmd>>

Read(c) ==
    /\ call[c].pc = "read"
    /\ call' = [call EXCEPT ![c] = ReadStep(@, archive[c])]
    /\ UNCHANGED <<archive, fileValidator, cmd>>

\* One map for every call: the name is marked in the map of each of them.
TrackShared(c) ==
    /\ call[c].pc = "track"
    /\ call' = [d \in DOMAIN call |->
                  IF d = c THEN TrackStep(call[d], archive[c])
                  ELSE [call[d] EXCEPT
                           !.files = Mark(@, Name(archive[c].entries[call[c].f]))]]
    /\ UNCHANGED <<archive, fileValidator, cmd>>

Track(c) ==
    /\ call[c].pc = "track"
    /\ call' = [call EXCEPT ![c] = TrackStep(@, archive[c])]
    /\ UNCHANGED <<archive, fileValidator, cmd>>

Hook(c) ==
    /\ call[c].pc = "hook"
    /\ call' = [call EXCEPT ![c] = HookStep(@, archive[c], fileValidator[c])]
    /\ UNCHANGED <<archive, fileValidator, cmd>>

Close(c) ==
    /\ call[c].pc = "close"
    /\ call' = [call EXCEPT ![c] = CloseStep(@, archive[c])]
    /\ UNCHANGED <<archive, fileValidator, cmd>>

Check(c) ==
    /\ call[c].pc = "check"
    /\ \E e \in CheckResults(call[c].files) :
         call' = [call EXCEPT ![c] = Return(@, e)]
    /\ UNCHANGED <<archive, fileValidator, cmd>>

(***************************************************************************)
(* ValidateCommand.Exec (lines 29-62), the caller of validate(p, nil).     *)
(***************************************************************************)
\* The state of Exec.
\*   pc       "none": validate is called by another caller (deploy, a test);
\*            "exec": at line 30; "validate": in the call of line 50; "done"
\*   flag     --package was given (c.path # "")
\*   source   where the manifest has the project name from ("undefined":
\*            manifest.SourceUndefined)
\*   absOk    filepath.Abs succeeds
\*   target   what is at the path Exec resolves
\*   packagePath  "": not computed; "flag": c.path; "derived": line 39
\*   calls    the number of calls of validate made
\*   out      the confirmation of line 60 was written
\*   ret      what Exec returned ("none": it has not returned)
NoCmd ==
    [pc |-> "none", flag |-> FALSE, source |-> "undefined", absOk |-> FALSE,
     target |-> [exists |-> FALSE, gzip |-> FALSE, entries |-> <<>>,
                 tail |-> "eof", closeErr |-> 0],
     packagePath |-> "", calls |-> 0, out |-> FALSE, ret |-> "none"]

\* lines 30-48: what stops Exec before line 50 ("": nothing does)
ExecStop(m) ==
    IF ~m.flag /\ m.source = "undefined" THEN "ErrReadingManifest"
    ELSE IF ~m.absOk THEN "AbsError"
    ELSE ""

\* The confirmation is written whatever validate returned.
ExecEndStepAlwaysSuccess(m, e) ==
    [m EXCEPT !.pc = "done", !.out = TRUE,
              !.ret = IF e # Nil THEN "ValidateError" ELSE "nil"]

\* lines 50-61: the error of validate is wrapped and returned, or the
\* confirmation is written and nil returned
ExecEndStep(m, e) ==
    IF e # Nil
    THEN [m EXCEPT !.pc = "done", !.ret = "ValidateError"]
    ELSE [m EXCEPT !.pc = "done", !.out = TRUE, !.ret = "nil"]

\* lines 30-50: the path is resolved and validate(p, nil) is called
ExecBegin ==
    /\ cmd.pc = "exec"
    /\ IF ExecStop(cmd) # ""
       THEN /\ cmd' = [cmd EXCEPT !.pc = "done", !.ret = ExecStop(cmd)]
            /\ UNCHANGED <<archive, fileValidator, call>>
       ELSE /\ cmd' = [cmd EXCEPT !.pc = "validate", !.calls = @ + 1,
                                  !.packagePath =
                                      IF cmd.flag THEN "flag" ELSE "derived"]
            /\ archive' = [c \in {"exec"} |-> cmd.target]
            /\ fileValidator' = [c \in {"exec"} |-> NilValidator]
            /\ call' = [c \in {"exec"} |-> Entry]

\* lines 50-61: validate has returned
ExecEnd ==
    /\ cmd.pc = "validate"
    /\ call["exec"].pc = "done"
    /\ cmd' = ExecEndStep(cmd, call["exec"].err)
    /\ UNCHANGED <<archive, fileValidator, call>>

\* One call of validate, on any archive, with any hook.
Init ==
    \E a \in Archives : \E v \in Validators(a) :
        /\ archive = [c \in {"a"} |-> a]
        /\ fileValidator = [c \in {"a"} |-> v]
        /\ call = [c \in {"a"} |-> Entry]
        /\ cmd = NoCmd

\* The validate command is run: validate is not called yet.
InitExec ==
    \E a \in Archives, fl \in BOOLEAN, ok \in BOOLEAN,
       src \in {"undefined", "file"} :
        /\ archive = [c \in {} |-> a]
        /\ fileValidator = [c \in {} |-> NilValidator]
        /\ call = [c \in {} |-> Entry]
        /\ cmd = [NoCmd EXCEPT !.pc = "exec", !.flag = fl, !.source = src,
                               !.absOk = ok, !.target = a]

\* Two calls on the same archive, one with a hook that accepts every entry
\* and one without a hook.
InitPair ==
    \E a \in Archives :
        /\ archive = [c \in {"a", "b"} |-> a]
        /\ fileValidator =
             [c \in {"a", "b"} |-> IF c = "a" THEN AcceptAll ELSE NilValidator]
        /\ call = [c \in {"a", "b"} |-> Entry]
        /\ cmd = NoCmd

Next ==
    \/ \E c \in Calls : OsOpen(c)
    \/ \E c \in Calls : TarOpen(c)
    \/ \E c \in Calls : MakeFiles(c)
    \/ \E c \in Calls : Read(c)
    \/ \E c \in Calls : Track(c)
    \/ \E c \in Calls : Hook(c)
    \/ \E c \in Calls : Close(c)
    \/ \E c \in Calls : Check(c)

Spec == Init /\ [][Next]_vars

\* validate runs on the goroutine of its caller, which executes one statement
\* after the other: a call that has a next step takes it.
SpecFair == Init /\ [][Next]_vars /\ WF_vars(Next)

SpecPair == InitPair /\ [][Next]_vars

\* The same archive is validated twice with the same hook, the second call
\* made when the first has returned.
InitTwice ==
    \E a \in Archives : \E v \in Validators(a) :
        /\ archive = [c \in {"a", "b"} |-> a]
        /\ fileValidator = [c \in {"a", "b"} |-> v]
        /\ call = [c \in {"a", "b"} |-> Entry]
        /\ cmd = NoCmd

\* Two calls run concurrently, each on its own archive (which can be the same
\* one), their steps interleaved in any way.  The archives hold top-level
\* entries and every Close() succeeds.
ConcArchives ==
    { a \in Archives :
        /\ Len(a.entries) <= MaxConcEntries
        /\ \A i \in 1..Len(a.entries) : Len(a.entries[i]) = 1
        /\ a.closeErr = 0 }

InitConc ==
    \E a \in ConcArchives, b \in ConcArchives :
        /\ archive = [c \in {"a", "b"} |-> IF c = "a" THEN a ELSE b]
        /\ fileValidator = [c \in {"a", "b"} |-> NilValidator]
        /\ call = [c \in {"a", "b"} |-> Entry]
        /\ cmd = NoCmd

SpecConc == InitConc /\ [][Next]_vars

Turn(c) == c = "b" => call["a"].pc = "done"

NextTwice ==
    \/ \E c \in Calls : Turn(c) /\ OsOpen(c)
    \/ \E c \in Calls : Turn(c) /\ TarOpen(c)
    \/ \E c \in Calls : Turn(c) /\ MakeFiles(c)
    \/ \E c \in Calls : Turn(c) /\ Read(c)
    \/ \E c \in Calls : Turn(c) /\ Track(c)
    \/ \E c \in Calls : Turn(c) /\ Hook(c)
    \/ \E c \in Calls : Turn(c) /\ Close(c)
    \/ \E c \in Calls : Turn(c) /\ Check(c)

SpecTwice == InitTwice /\ [][NextTwice]_vars

NextExec ==
    \/ ExecBegin
    \/ ExecEnd
    \/ Next

SpecExec == InitExec /\ [][NextExec]_vars

\* The orchestrator's state (spec 4.5) a call is in.
OState(s) ==
    CASE s.pc \in {"osOpen", "tarOpen"} -> "Idle"
      [] s.pc = "newFiles" -> "Opened"
      [] s.pc \in {"read", "track", "hook", "close"} -> "Streaming"
      [] s.pc = "check" -> "Drained"
      [] s.pc = "done" /\ s.err = Nil -> "Succeeded"
      [] OTHER -> "Failed"

(***************************************************************************)
(* Vocabulary of the properties.                                           *)
(***************************************************************************)
Done(c) == call[c].pc = "done"

\* The last element of a path.
BaseName(p) == p[Len(p)]

\* The names the entries of archive a go by.
NamesIn(a) == { BaseName(a.entries[i]) : i \in 1..Len(a.entries) }

\* The required names no entry of a goes by.
NeverSeen(a) == Required \ NamesIn(a)

\* a opens and its stream drains: no open, read or close failure.
Sound(a) == a.exists /\ a.gzip /\ a.tail = "eof" /\ a.closeErr = 0

\* Call c meets no open, read, hook or close failure.
Clean(c) == Sound(archive[c]) /\ fileValidator[c].rejectAt = 0

\* The number of operations `op` with result ok among ops.
Count(ops, op, ok) ==
    Cardinality({ i \in DOMAIN ops : ops[i].op = op /\ ops[i].ok = ok })

AllTrue(fs) == \A k \in DOMAIN fs : fs[k]
NoneTrue(fs) == \A k \in DOMAIN fs : ~fs[k]

\* What a call of validate on archive a with hook v returns when it is the
\* only call: the first failure met in the order open, unarchive, then per
\* entry read, hook, close, then the check of the required names.
FirstFailure(a, v) ==
    LET n == Len(a.entries)
        rejected == IF v.present /\ v.rejectAt >= 1 THEN v.rejectAt ELSE n + 1
        unclosed == IF a.closeErr >= 1 THEN a.closeErr ELSE n + 1
    IN  IF ~a.exists THEN { Err("OpenError") }
        ELSE IF ~a.gzip THEN { Err("UnarchiveError") }
        ELSE IF rejected <= n /\ rejected <= unclosed
        THEN { Err("ValidatorError") }
        ELSE IF unclosed <= n THEN { Err("CloseError") }
        ELSE IF a.tail # "eof" THEN { Err("ReadError") }
        ELSE IF NeverSeen(a) = {} THEN { Nil }
        ELSE { MissingErr(k) : k \in NeverSeen(a) }

IsPrefix(s, t) == Len(s) <= Len(t) /\ SubSeq(t, 1, Len(s)) = s

(***************************************************************************)
(* C1 (as stated).  A drained archive with no failure that lacks a         *)
(* required name fails with MissingRequiredFileError, and the error names  *)
(* exactly the missing names: all of them when both are missing.           *)
(***************************************************************************)
C1_NamesAllMissing ==
    \A c \in Calls :
        (Done(c) /\ Clean(c) /\ NeverSeen(archive[c]) # {}) =>
            /\ call[c].err.kind = "MissingRequiredFileError"
            /\ { call[c].err.name } = NeverSeen(archive[c])

(***************************************************************************)
(* C1 (amended).  A drained archive with no failure that lacks a required  *)
(* name fails with MissingRequiredFileError, and the error names one name: *)
(* a missing one, never one that was observed.                             *)
(***************************************************************************)
C1_NamesOneMissing ==
    \A c \in Calls :
        (Done(c) /\ Clean(c) /\ NeverSeen(archive[c]) # {}) =>
            /\ call[c].err.kind = "MissingRequiredFileError"
            /\ call[c].err.name \in NeverSeen(archive[c])

\* Both names are missing from a non-empty archive and main.wasm is reported.
C1_Witness ==
    \E c \in Calls :
        /\ Done(c) /\ Clean(c)
        /\ archive[c].entries # <<>>
        /\ NeverSeen(archive[c]) = Required
        /\ call[c].err = MissingErr("main.wasm")

(***************************************************************************)
(* C2.  An archive that opens, holds both required entries (in any order,  *)
(* among any other or repeated entries) and meets no read or close         *)
(* failure is accepted when there is no hook.                              *)
(***************************************************************************)
C2_BothPresentSucceeds ==
    \A c \in Calls :
        (/\ Done(c)
         /\ Sound(archive[c])
         /\ fileValidator[c] = NilValidator
         /\ Required \subseteq NamesIn(archive[c])) =>
            call[c].err = Nil

C2_Witness ==
    \E c \in Calls :
        /\ Done(c)
        /\ fileValidator[c] = NilValidator
        /\ archive[c].entries = << <<"README.md">>, <<"main.wasm">>, <<"fastly.toml">> >>
        /\ call[c].err = Nil

(***************************************************************************)
(* C3.  validate has succeeded only if the stream was read to its end,     *)
(* every entry read was closed without error, the hook (if any) accepted   *)
(* every entry, and every required name's flag is true.                    *)
(***************************************************************************)
C3_SuccessOnlyIfAll ==
    \A c \in Calls :
        LET s == call[c]
            a == archive[c]
            n == Len(a.entries)
        IN  (OState(s) = "Succeeded") =>
                /\ Done(c)
                /\ Count(s.ops, "open", TRUE) = 1
                /\ Count(s.ops, "tarOpen", TRUE) = 1
                /\ s.reads = n + 1
                /\ \E i \in DOMAIN s.ops : s.ops[i] = Op("eof", n + 1, TRUE)
                /\ Count(s.ops, "read", FALSE) = 0
                /\ \A e \in 1..n :
                     /\ \E i \in DOMAIN s.ops : s.ops[i] = Op("read", e, TRUE)
                     /\ \E i \in DOMAIN s.ops : s.ops[i] = Op("close", e, TRUE)
                /\ Count(s.ops, "close", FALSE) = 0
                /\ s.open = {}
                /\ fileValidator[c].present =>
                     /\ s.hooked = [e \in 1..n |-> e]
                     /\ fileValidator[c].rejectAt = 0
                /\ DOMAIN s.files = Required
                /\ AllTrue(s.files)

C3_Witness ==
    \E c \in Calls :
        /\ OState(call[c]) = "Succeeded"
        /\ fileValidator[c].present
        /\ Len(archive[c].entries) = 3

(***************************************************************************)
(* C4.  Once the hook has returned its error on entry k, validate has      *)
(* returned that error, entry k is closed, k calls of tar.Read and k calls *)
(* of the hook were made in all, and no MissingRequiredFileError is        *)
(* reported, whatever the flags are.                                       *)
(***************************************************************************)
C4_HookFailureAborts ==
    \A c \in Calls :
        LET s == call[c]
            k == fileValidator[c].rejectAt
        IN  (/\ fileValidator[c].present
             /\ k >= 1
             /\ \E i \in DOMAIN s.hooked : s.hooked[i] = k) =>
                /\ Done(c)
                /\ s.err = Err("ValidatorError")
                /\ k \notin s.open
                /\ \E i \in DOMAIN s.ops : s.ops[i].op = "close" /\ s.ops[i].n = k
                /\ \A i \in DOMAIN s.ops :
                     s.ops[i].op \in {"read", "eof"} => s.ops[i].n <= k
                /\ s.reads = k
                /\ s.hooked = [e \in 1..k |-> e]

\* The hook rejects the second of three entries, a required name is not yet
\* observed, and the Close() of the rejected entry fails too.
C4_Witness ==
    \E c \in Calls :
        /\ call[c].err = Err("ValidatorError")
        /\ fileValidator[c].rejectAt = 2
        /\ Len(archive[c].entries) = 3
        /\ archive[c].closeErr = 2
        /\ ~AllTrue(call[c].files)

(***************************************************************************)
(* C5 (as stated).  With a hook that accepts every entry, validate returns *)
(* the same outcome and performs the same operations on the archive as     *)
(* with no hook.                                                           *)
(***************************************************************************)
C5_SameOutcome ==
    (Done("a") /\ Done("b")) =>
        /\ call["a"].err = call["b"].err
        /\ call["a"].ops = call["b"].ops

(***************************************************************************)
(* C5 (amended).  With a hook that accepts every entry, validate returns   *)
(* the same kind of outcome and performs the same operations on the        *)
(* archive as with no hook; the outcome is the same unless both required   *)
(* names are missing, when each call names one of them.                    *)
(***************************************************************************)
C5_SameKindAndOps ==
    LET x == call["a"]
        y == call["b"]
    IN  /\ IsPrefix(x.ops, y.ops) \/ IsPrefix(y.ops, x.ops)
        /\ (Done("a") /\ Done("b")) =>
              /\ x.err.kind = y.err.kind
              /\ x.ops = y.ops
              /\ x.files = y.files
              /\ x.err.kind = "MissingRequiredFileError" =>
                    /\ ~x.files[x.err.name]
                    /\ ~y.files[y.err.name]
              /\ Cardinality({ k \in DOMAIN x.files : ~x.files[k] }) <= 1 =>
                    x.err = y.err

C5_Witness ==
    /\ Done("a") /\ Done("b")
    /\ call["a"].err = MissingErr("main.wasm")
    /\ call["b"].err = MissingErr("main.wasm")
    /\ Len(call["a"].hooked) = 2

(***************************************************************************)
(* C6 (as stated).  A required name is marked observed only by an entry    *)
(* stored under exactly that name, and the archive of fastly.toml and      *)
(* subdir/main.wasm fails, main.wasm reported missing.                     *)
(***************************************************************************)
SubdirExample == << <<"fastly.toml">>, <<"subdir", "main.wasm">> >>

C6_FullNameMatch ==
    \A c \in Calls :
        /\ \A k \in DOMAIN call[c].files :
              call[c].files[k] =>
                  \E i \in 1..call[c].f : archive[c].entries[i] = <<k>>
        /\ (/\ Done(c) /\ Clean(c)
            /\ archive[c].entries = SubdirExample) =>
                call[c].err = MissingErr("main.wasm")

(***************************************************************************)
(* C6 (amended).  A required name is marked observed only by an entry      *)
(* whose base name (the last element of its path) is exactly that string,  *)
(* and by every such entry: subdir/main.wasm marks main.wasm, and the      *)
(* archive of fastly.toml and subdir/main.wasm is accepted.                *)
(***************************************************************************)
C6_BaseNameMatch ==
    \A c \in Calls :
        LET s == call[c]
            a == archive[c]
            tracked == IF s.pc = "track" THEN s.f - 1 ELSE s.f
        IN  /\ \A k \in DOMAIN s.files :
                  s.files[k] <=>
                      \E i \in 1..tracked : a.entries[i][Len(a.entries[i])] = k
            /\ (Done(c) /\ Clean(c) /\ a.entries = SubdirExample) =>
                  s.err = Nil

C6_Witness ==
    \E c \in Calls :
        /\ Done(c)
        /\ archive[c].entries = SubdirExample
        /\ call[c].err = Nil

(***************************************************************************)
(* C7 (as stated).  A path that cannot be opened fails with OpenError; a   *)
(* file that is not gzip, or is gzip but not a tar container, fails with   *)
(* UnarchiveError at the open step; in both cases nothing is read, the     *)
(* hook is not called and no flag is set.                                  *)
(***************************************************************************)
\* A gzip stream that holds no tar container: the first tar.Read fails.
NotTar(a) == a.exists /\ a.gzip /\ a.entries = <<>> /\ a.tail = "corrupt"

Untouched(s) == s.reads = 0 /\ s.hooked = <<>> /\ NoneTrue(s.files)

C7_UnarchiveAtOpen ==
    \A c \in Calls :
        LET s == call[c]
            a == archive[c]
        IN  Done(c) =>
              /\ ~a.exists => (s.err = Err("OpenError") /\ Untouched(s))
              /\ (a.exists /\ (~a.gzip \/ NotTar(a))) =>
                    (s.err = Err("UnarchiveError") /\ Untouched(s))

(***************************************************************************)
(* C7 (amended).  A path that cannot be opened fails with OpenError; a     *)
(* file that is not a gzip stream fails with UnarchiveError at the open    *)
(* step (Idle goes directly to Failed); in both cases nothing is read, the *)
(* hook is not called and no flag is set.  A gzip stream that is not a tar *)
(* container opens, and fails with ReadError at the first tar.Read.        *)
(***************************************************************************)
C7_OpenFailures ==
    \A c \in Calls :
        LET s == call[c]
            a == archive[c]
        IN  /\ (~a.exists \/ ~a.gzip) =>
                  /\ OState(s) \in {"Idle", "Failed"}
                  /\ Untouched(s)
            /\ (Done(c) /\ ~a.exists) =>
                  /\ s.err = Err("OpenError")
                  /\ s.ops = << Op("open", 0, FALSE) >>
            /\ (Done(c) /\ a.exists /\ ~a.gzip) =>
                  /\ s.err = Err("UnarchiveError")
                  /\ s.ops = << Op("open", 0, TRUE), Op("tarOpen", 0, FALSE),
                                Op("fileClose", 0, TRUE) >>
            /\ (Done(c) /\ NotTar(a)) =>
                  /\ s.err = Err("ReadError")
                  /\ s.reads = 1
                  /\ s.hooked = <<>>
                  /\ NoneTrue(s.files)

C7_Witness ==
    \E c \in Calls :
        /\ Done(c)
        /\ archive[c].exists /\ ~archive[c].gzip
        /\ fileValidator[c].present
        /\ call[c].err = Err("UnarchiveError")

(***************************************************************************)
(* C8.  When tar.Read fails with an error that is not io.EOF, validate     *)
(* has returned ReadError: the required-entry check is not reached, so the *)
(* outcome is neither MissingRequiredFileError nor success, whatever the   *)
(* flags are.                                                              *)
(***************************************************************************)
C8_ReadErrorImmediate ==
    \A c \in Calls :
        LET s == call[c]
            a == archive[c]
        IN  /\ (/\ a.exists /\ a.gzip /\ a.tail = "corrupt"
                /\ s.reads = Len(a.entries) + 1) =>
                  /\ Done(c)
                  /\ s.err = Err("ReadError")
                  /\ Count(s.ops, "eof", TRUE) = 0
            /\ \A i \in DOMAIN s.ops :
                  (s.ops[i].op = "read" /\ ~s.ops[i].ok) =>
                      /\ Done(c)
                      /\ s.err = Err("ReadError")
                      /\ \A j \in DOMAIN s.ops :
                            j > i => s.ops[j].op \in {"tarClose", "fileClose"}

\* The read fails after both required names were observed.
C8_Witness ==
    \E c \in Calls :
        /\ call[c].err = Err("ReadError")
        /\ Len(archive[c].entries) = 2
        /\ DOMAIN call[c].files = Required
        /\ AllTrue(call[c].files)

(***************************************************************************)
(* C9.  When validate has returned, the file and the tar/gzip reader it    *)
(* opened are released, the reader before the file, each once; nothing is  *)
(* released that was not opened.                                           *)
(***************************************************************************)
C9_ResourcesReleased ==
    \A c \in Calls :
        LET s == call[c]
            opened == Count(s.ops, "open", TRUE)
            tarOpened == Count(s.ops, "tarOpen", TRUE)
            closed == Count(s.ops, "fileClose", TRUE)
            tarClosed == Count(s.ops, "tarClose", TRUE)
        IN  /\ closed <= opened /\ opened <= 1
            /\ tarClosed <= tarOpened /\ tarOpened <= 1
            /\ s.fileOpen <=> (opened = 1 /\ closed = 0)
            /\ s.tarOpen <=> (tarOpened = 1 /\ tarClosed = 0)
            /\ Done(c) =>
                  /\ ~s.fileOpen /\ ~s.tarOpen
                  /\ closed = opened
                  /\ tarClosed = tarOpened
                  /\ \A i, j \in DOMAIN s.ops :
                        (s.ops[i].op = "tarClose" /\ s.ops[j].op = "fileClose")
                            => i < j

C9_Witness ==
    \E c \in Calls :
        /\ Done(c)
        /\ call[c].err = Err("CloseError")
        /\ Count(call[c].ops, "fileClose", TRUE) = 1
        /\ Count(call[c].ops, "tarClose", TRUE) = 1

(***************************************************************************)
(* C10.  At most one entry is open at a time: each tar.Read is made after  *)
(* Close() was called on the entry before it, and when validate has        *)
(* returned Close() was called once on every entry tar.Read returned.      *)
(***************************************************************************)
C10_OneEntryOpen ==
    \A c \in Calls :
        LET s == call[c]
        IN  /\ Cardinality(s.open) <= 1
            /\ s.open \subseteq {s.f}
            /\ s.pc = "read" => s.open = {}
            /\ \A i \in DOMAIN s.ops :
                  (s.ops[i].op \in {"read", "eof"} /\ s.ops[i].n > 1) =>
                      \E j \in 1..(i - 1) :
                          s.ops[j].op = "close" /\ s.ops[j].n = s.ops[i].n - 1
            /\ Done(c) =>
                  /\ s.open = {}
                  /\ \A e \in 1..s.f :
                        Cardinality({ i \in DOMAIN s.ops :
                            s.ops[i].op = "close" /\ s.ops[i].n = e }) = 1

C10_Witness ==
    \E c \in Calls :
        /\ Done(c)
        /\ call[c].err = Err("ValidatorError")
        /\ call[c].f = 3
        /\ archive[c].closeErr = 0

(***************************************************************************)
(* C11 (as stated).  Validating the same archive twice with the same hook  *)
(* gives the same outcome both times, the missing name included: the       *)
(* outcome does not depend on the order the required set is iterated in.   *)
(***************************************************************************)
C11_SameOutcomeTwice ==
    (Done("a") /\ Done("b")) => call["a"].err = call["b"].err

(***************************************************************************)
(* C11 (amended).  Validating the same archive twice with the same hook    *)
(* gives the same kind of outcome, the same operations and the same flags  *)
(* both times, and the same missing name when one required name is         *)
(* missing; when both are missing each call names one of them.             *)
(***************************************************************************)
C11_SameKindTwice ==
    LET x == call["a"]
        y == call["b"]
        missing == { k \in DOMAIN x.files : ~x.files[k] }
    IN  (Done("a") /\ Done("b")) =>
            /\ x.err.kind = y.err.kind
            /\ x.ops = y.ops
            /\ x.hooked = y.hooked
            /\ x.files = y.files
            /\ x.err.kind = "MissingRequiredFileError" =>
                  (x.err.name \in missing /\ y.err.name \in missing)
            /\ Cardinality(missing) <= 1 => x.err = y.err

\* Both names are missing and the two calls report different ones.
C11_Witness ==
    /\ Done("a") /\ Done("b")
    /\ archive["a"].entries = << <<"README.md">> >>
    /\ call["a"].err = MissingErr("fastly.toml")
    /\ call["b"].err = MissingErr("main.wasm")

(***************************************************************************)
(* C12.  A call starts Idle and only moves along                           *)
(*   Idle -> Opened -> Streaming -> Drained -> Succeeded | Failed,         *)
(* with Idle -> Failed on an open or unarchive failure and Streaming ->    *)
(* Failed on a read, hook or close failure; nothing changes once it is     *)
(* Succeeded or Failed; Succeeded and Failed(MissingRequiredFileError) are *)
(* entered from Drained only.                                              *)
(***************************************************************************)
\* The step of a call from local state s to local state t is one the
\* orchestrator's state machine has.
Moves(s, t) ==
    LET from == OState(s)
        to == OState(t)
    IN  CASE from = "Idle" ->
                 \/ to \in {"Idle", "Opened"}
                 \/ to = "Failed" /\ t.err.kind \in {"OpenError", "UnarchiveError"}
          [] from = "Opened" -> to = "Streaming"
          [] from = "Streaming" ->
                 \/ to \in {"Streaming", "Drained"}
                 \/ to = "Failed" /\
                        t.err.kind \in {"ReadError", "ValidatorError", "CloseError"}
          [] from = "Drained" ->
                 \/ to = "Succeeded"
                 \/ to = "Failed" /\ t.err.kind = "MissingRequiredFileError"
          [] OTHER -> FALSE

C12_StateMachine ==
    /\ \A c \in Calls : OState(call[c]) = "Idle"
    /\ [][\A c \in Calls :
            /\ c \in DOMAIN call'
            /\ call'[c] # call[c] => Moves(call[c], call'[c])]_vars

\* A call that went through every state and failed at the final check.
C12_Witness ==
    \E c \in Calls :
        /\ OState(call[c]) = "Failed"
        /\ call[c].err.kind = "MissingRequiredFileError"
        /\ Len(call[c].hooked) = 3

(***************************************************************************)
(* C13.  The flags of a call are its own: when two calls run concurrently, *)
(* on the same archive or on different ones, each starts with every flag   *)
(* false, a flag of a call is true only for a name one of its own entries  *)
(* goes by, and each call returns what it returns when it runs alone.      *)
(***************************************************************************)
C13_TrackerPrivate ==
    \A c \in Calls :
        LET s == call[c]
            a == archive[c]
            tracked == IF s.pc = "track" THEN s.f - 1 ELSE s.f
        IN  /\ (s.pc = "read" /\ s.f = 0) =>
                  (DOMAIN s.files = {"fastly.toml", "main.wasm"} /\ NoneTrue(s.files))
            /\ \A k \in DOMAIN s.files :
                  s.files[k] <=>
                      \E i \in 1..tracked : BaseName(a.entries[i]) = k
            /\ Done(c) => s.err \in FirstFailure(a, fileValidator[c])

\* Both calls are in their loop; each has observed the one name the other
\* has not.
C13_Witness ==
    /\ Calls = {"a", "b"}
    /\ call["a"].pc = "hook" /\ call["b"].pc = "hook"
    /\ call["a"].files["main.wasm"] /\ ~call["a"].files["fastly.toml"]
    /\ call["b"].files["fastly.toml"] /\ ~call["b"].files["main.wasm"]

(***************************************************************************)
(* C14.  Exec writes the confirmation and returns nil exactly when         *)
(* validate returned nil; it returns a failure and writes nothing for      *)
(* every error of validate; with no --package path and an undefined        *)
(* project name it fails before validate is called; it calls validate at   *)
(* most once, with a nil hook.                                             *)
(***************************************************************************)
C14_ExecFollowsValidate ==
    /\ cmd.calls <= 1
    /\ Calls = (IF cmd.calls = 0 THEN {} ELSE {"exec"})
    /\ \A c \in Calls : fileValidator[c] = [present |-> FALSE, rejectAt |-> 0]
    /\ (~cmd.flag /\ cmd.source = "undefined") =>
          /\ cmd.calls = 0
          /\ cmd.pc = "done" => (cmd.ret = "ErrReadingManifest" /\ ~cmd.out)
    /\ cmd.pc # "done" => (~cmd.out /\ cmd.ret = "none")
    /\ cmd.pc = "done" =>
          /\ cmd.ret # "none"
          /\ cmd.out <=> cmd.ret = "nil"
          /\ cmd.ret = "nil" <=>
                (cmd.calls = 1 /\ call["exec"].pc = "done"
                    /\ call["exec"].err.kind = "nil")
          /\ (cmd.calls = 1 /\ call["exec"].err.kind \in
                  {"OpenError", "UnarchiveError", "ReadError", "CloseError",
                   "MissingRequiredFileError"}) =>
                (cmd.ret = "ValidateError" /\ ~cmd.out)

\* The default path is validated and the confirmation written.
C14_Witness ==
    /\ cmd.pc = "done"
    /\ ~cmd.flag /\ cmd.packagePath = "derived"
    /\ cmd.out /\ cmd.ret = "nil"
    /\ Len(archive["exec"].entries) = 3

(***************************************************************************)
(* C15 (as stated).  The required names are configuration the caller       *)
(* supplies: whatever set R of names the caller requires, a call that      *)
(* meets no failure succeeds exactly when the archive holds every name of  *)
(* R.                                                                      *)
(***************************************************************************)
NameUniverse == {"fastly.toml", "main.wasm", "README.md"}

C15_RequiredIsInput ==
    \A R \in SUBSET NameUniverse :
        \A c \in Calls :
            (Done(c) /\ Clean(c)) =>
                (call[c].err = Nil <=> R \subseteq NamesIn(archive[c]))

(***************************************************************************)
(* C15 (amended).  The required names are fixed by validate: the keys of   *)
(* its map are fastly.toml and main.wasm in every call, whatever the       *)
(* caller passes, and a call that meets no failure succeeds exactly when   *)
(* the archive holds both.                                                 *)
(***************************************************************************)
C15_RequiredIsFixed ==
    \A c \in Calls :
        LET s == call[c]
        IN  /\ DOMAIN s.files =
                  (IF s.pc \in {"osOpen", "tarOpen", "newFiles"}
                        \/ ~archive[c].exists \/ ~archive[c].gzip
                   THEN {} ELSE {"fastly.toml", "main.wasm"})
            /\ (Done(c) /\ Clean(c)) =>
                  /\ s.err = Nil <=>
                        {"fastly.toml", "main.wasm"} \subseteq NamesIn(archive[c])
                  /\ s.err # Nil =>
                        /\ s.err.kind = "MissingRequiredFileError"
                        /\ s.err.name \in {"fastly.toml", "main.wasm"}

\* An archive that holds README.md alone is refused, hook or no hook.
C15_Witness ==
    \E c \in Calls :
        /\ Done(c) /\ Clean(c)
        /\ fileValidator[c].present
        /\ archive[c].entries = << <<"README.md">> >>
        /\ call[c].err.kind = "MissingRequiredFileError"

(***************************************************************************)
(* C16.  A hook is called once on each entry tar.Read returns, in stream   *)
(* order, while the entry is open and after the flags were updated for it: *)
(* when the hook is called on an entry that goes by a required name, the   *)
(* flag of that name is true.                                              *)
(***************************************************************************)
C16_HookOncePerEntry ==
    /\ [](\A c \in Calls :
            LET s == call[c]
                m == IF s.pc \in {"track", "hook"} THEN s.f - 1 ELSE s.f
            IN  s.hooked = (IF fileValidator[c].present
                            THEN [e \in 1..m |-> e] ELSE <<>>))
    /\ [][\A c \in Calls :
            call'[c].hooked # call[c].hooked =>
                LET s == call[c]
                    n == BaseName(archive[c].entries[s.f])
                IN  /\ s.pc = "hook"
                    /\ call'[c].hooked = Append(s.hooked, s.f)
                    /\ s.f \in s.open
                    /\ \A i \in DOMAIN s.ops :
                          ~(s.ops[i].op = "close" /\ s.ops[i].n = s.f)
                    /\ n \in {"fastly.toml", "main.wasm"} => s.files[n]]_vars

\* The hook was called on two entries, the second one a required name.
C16_Witness ==
    \E c \in Calls :
        /\ call[c].pc = "close"
        /\ call[c].hooked = <<1, 2>>
        /\ archive[c].entries[1] = <<"README.md">>
        /\ archive[c].entries[2] = <<"fastly.toml">>
        /\ call[c].files["fastly.toml"]

(***************************************************************************)
(* C17.  When the Close() of an entry the hook accepted (or that no hook   *)
(* saw) fails, validate has returned CloseError and no further entry is    *)
(* read; so it is for the last entry of an archive whose required names    *)
(* were all observed: the call is Failed, not Succeeded.                   *)
(***************************************************************************)
C17_CloseErrorAborts ==
    \A c \in Calls :
        LET s == call[c]
            j == archive[c].closeErr
            v == fileValidator[c]
        IN  (/\ j >= 1
             /\ \E i \in DOMAIN s.ops : s.ops[i] = Op("close", j, FALSE)
             /\ ~(v.present /\ v.rejectAt = j)) =>
                /\ Done(c)
                /\ s.err = Err("CloseError")
                /\ OState(s) = "Failed"
                /\ s.reads = j
                /\ \A i \in DOMAIN s.ops :
                      s.ops[i].op \in {"read", "eof"} => s.ops[i].n <= j

\* The Close() of the last entry fails, every required name observed and
\* every entry accepted by the hook.
C17_Witness ==
    \E c \in Calls :
        /\ Done(c)
        /\ archive[c].closeErr = 3
        /\ Len(archive[c].entries) = 3
        /\ archive[c].tail = "eof"
        /\ fileValidator[c] = AcceptAll
        /\ AllTrue(call[c].files)
        /\ call[c].err = Err("CloseError")

(***************************************************************************)
(* C18.  A call returns one outcome: the first failure met in the order    *)
(* open, unarchive, then per entry read, hook, close, then the check of    *)
(* the required names (nil when there is none).  No operation is made      *)
(* twice and none follows a failed one, but the release of the archive.    *)
(* When the hook rejects an entry whose Close() fails too, the outcome is  *)
(* ValidatorError.                                                         *)
(***************************************************************************)
C18_FirstFailureOnly ==
    \A c \in Calls :
        LET s == call[c]
            a == archive[c]
            v == fileValidator[c]
        IN  /\ ~Done(c) => s.err = NoError
            /\ Done(c) => s.err \in FirstFailure(a, v)
            /\ \A i, j \in DOMAIN s.ops :
                  i < j =>
                      /\ ~(s.ops[i].op = s.ops[j].op /\ s.ops[i].n = s.ops[j].n)
                      /\ ~s.ops[i].ok => s.ops[j].op \in {"tarClose", "fileClose"}
            /\ (/\ Done(c) /\ v.present /\ v.rejectAt >= 1
                /\ a.closeErr = v.rejectAt
                /\ \E i \in DOMAIN s.ops : s.ops[i] = Op("close", a.closeErr, FALSE))
                  => s.err = Err("ValidatorError")

\* The hook rejects the first of two entries and its Close() fails.
C18_Witness ==
    \E c \in Calls :
        /\ Done(c)
        /\ Len(archive[c].entries) = 2
        /\ fileValidator[c].rejectAt = 1
        /\ archive[c].closeErr = 1
        /\ call[c].err = Err("ValidatorError")
        /\ call[c].ops[4] = Op("close", 1, FALSE)

(***************************************************************************)
(* C19.  The flags are monotone and exact: the keys of the map never       *)
(* change, a flag that is true stays true (a repeated name leaves it       *)
(* true), an entry that does not go by a required name changes no flag,    *)
(* and a flag is true exactly when one of the entries read and compared so *)
(* far goes by that name.                                                  *)
(***************************************************************************)
C19_TrackerMonotoneExact ==
    /\ [](\A c \in Calls :
            LET s == call[c]
                a == archive[c]
                compared == IF s.pc = "track" THEN s.f - 1 ELSE s.f
            IN  \A k \in DOMAIN s.files :
                    s.files[k] <=>
                        \E i \in 1..compared : BaseName(a.entries[i]) = k)
    /\ [][\A c \in Calls :
            LET s == call[c]
                t == call'[c]
            IN  /\ DOMAIN s.files # {} => DOMAIN t.files = DOMAIN s.files
                /\ \A k \in DOMAIN s.files : s.files[k] => t.files[k]
                /\ t.files # s.files =>
                      \/ s.pc = "newFiles"
                      \/ /\ s.pc = "track"
                         /\ BaseName(archive[c].entries[s.f])
                                \in {"fastly.toml", "main.wasm"}]_vars

\* main.wasm came twice, then an entry no required name matches.
C19_Witness ==
    \E c \in Calls :
        /\ call[c].pc = "hook"
        /\ call[c].f = 3
        /\ archive[c].entries =
              << <<"main.wasm">>, <<"subdir", "main.wasm">>, <<"README.md">> >>
        /\ call[c].files["main.wasm"]
        /\ ~call[c].files["fastly.toml"]

(***************************************************************************)
(* C20.  validate terminates: every call reaches Succeeded or Failed.  The *)
(* archive is read in a single pass: the file and the archive are opened   *)
(* at most once, tar.Read returns the entries in increasing order, none    *)
(* twice, and is called at most once more than there are entries.          *)
(***************************************************************************)
C20_TerminatesSinglePass ==
    /\ <>(\A c \in Calls :
            OState(call[c]) \in {"Succeeded", "Failed"})
    /\ [](\A c \in Calls :
            LET s == call[c]
                reads == { i \in DOMAIN s.ops : s.ops[i].op \in {"read", "eof"} }
            IN  /\ s.reads <= Len(archive[c].entries) + 1
                /\ Cardinality(reads) = s.reads
                /\ \A i, j \in reads : i < j => s.ops[i].n < s.ops[j].n
                /\ \A i \in reads : s.ops[i].n <= Len(archive[c].entries) + 1
                /\ Cardinality({ i \in DOMAIN s.ops : s.ops[i].op = "open" }) <= 1
                /\ Cardinality({ i \in DOMAIN s.ops : s.ops[i].op = "tarOpen" }) <= 1)

\* Every entry of a full archive was read, then the end of the archive.
C20_Witness ==
    \E c \in Calls :
        /\ OState(call[c]) \in {"Succeeded", "Failed"}
        /\ Len(archive[c].entries) = MaxEntries
        /\ call[c].reads = Len(archive[c].entries) + 1

=============================================================================
